---------------------------- MODULE Spec2Model ----------------------------
(***************************************************************************)
(* Model of wd14-tagger-xmp (embed_tags_universal.py): the rating decision *)
(* calculate_rating, the per-image loop of process_images with the         *)
(* ExifToolWrapper it drives, and the configuration merge merge_defaults;  *)
(* and of write_xmp_passthrough_safe (embed_tags.py).                      *)
(*                                                                         *)
(* Numbers.  Probabilities and thresholds are compared and added, never    *)
(* scaled, so they are modelled as integers on a grid 0..MaxP.  A value k  *)
(* stands for the float k/4 (k/8 when MaxP exceeds 4, and so on): binary   *)
(* fractions, which np.sum adds without rounding, so that integer addition *)
(* is the code's addition.  Floats that are no binary fractions are        *)
(* outside the model: their sum can round to a neighbour of the exact sum  *)
(* (0.1 + 0.2 > 0.3), and a comparison of such a sum with a threshold it   *)
(* equals mathematically then follows the rounded value.  NaN is outside   *)
(* the model.  An optional argument (argparse default None) is a sequence: *)
(* <<>> is None, <<v>> is v.                                               *)
(*                                                                         *)
(* Specifications.  SpecRating calls calculate_rating once on every        *)
(* argument tuple of the grid; SpecCalls repeats the call with different   *)
(* entries after the four rating entries.  Spec runs process_images: the   *)
(* loop body is cut at its calls to the outside (exiftool, the inference,  *)
(* the file system), pc telling where the run stands, and each call's      *)
(* outcome is chosen by the environment.  A file's stored tags are drawn   *)
(* when step 1 looks at the file.  The counters processed_count,          *)
(* skipped_count and organized_count only feed the final print and are     *)
(* left out; a report entry is abbreviated to the position of its file.   *)
(* calculate_rating prints its progress through tqdm.write when it is      *)
(* given a file name (fname_disp): SpecRating and SpecCalls call it with   *)
(* and without one, process_images calls it with one, and every            *)
(* specification that reaches a tqdm.write draws what the module bound     *)
(* tqdm to at import.                                                      *)
(* SpecMerge calls merge_defaults twice on a pair of dicts.  SpecXmp runs  *)
(* write_xmp_passthrough_safe of embed_tags.py, cut at its renames and at  *)
(* the exiftool command.                                                   *)
(***************************************************************************)
EXTENDS Integers, Sequences, FiniteSets, TLC

\* ------------------------------------------------------------------ bounds
\* Largest grid value of a probability or threshold.
MaxP == 3

\* ------------------------------------------------------- program constants
None == <<>>
Some(v) == <<v>>

RATING_TAGS == <<"general", "sensitive", "questionable", "explicit">>

\* The rating rows that head selected_tags.csv, in file order, followed by
\* one content tag: the list load_model_and_tags returns as tags.
tags_global == <<"general", "sensitive", "questionable", "explicit", "1girl">>

\* DEFAULT_CONFIG["folder_names"]: rating -> directory name.
folder_names ==
    [general |-> "R-00", sensitive_mild |-> "R-15_0", sensitive_high |-> "R-15_5",
     questionable |-> "R-17", explicit |-> "R-18"]

\* --------------------------------------------------------- numpy / slicing
\* s[:n]
Take(s, n) == SubSeq(s, 1, IF Len(s) < n THEN Len(s) ELSE n)

\* s[n:]
Drop(s, n) == SubSeq(s, n + 1, Len(s))

RECURSIVE np_sum(_)
\* np.sum(s) on binary fractions given as integers: no rounding occurs.
np_sum(s) == IF s = <<>> THEN 0 ELSE Head(s) + np_sum(Tail(s))

\* The scan of np.argmax over positions i..Len(s), best being the position
\* of the largest value seen so far; a later value replaces it only when it
\* is strictly larger.  Positions are 1-based here.
RECURSIVE ArgMaxScan(_, _, _)
ArgMaxScan(s, i, best) ==
    IF i > Len(s) THEN best
    ELSE ArgMaxScan(s, i + 1, IF s[i] > s[best] THEN i ELSE best)

\* The same scan letting a later equal value win (last maximum).
RECURSIVE ArgMaxScanLast(_, _, _)
ArgMaxScanLast(s, i, best) ==
    IF i > Len(s) THEN best
    ELSE ArgMaxScanLast(s, i + 1, IF s[i] >= s[best] THEN i ELSE best)

np_argmax_last(s) == ArgMaxScanLast(s, 2, 1) - 1

\* np.argmax(s): 0-based index of the first maximum.
np_argmax(s) == ArgMaxScan(s, 2, 1) - 1

\* ------------------------------------------------------- calculate_rating
\* Mutants of rating_idx.
rating_idx_no_override(rating_probs, rating_thresh, gen_thresh) ==
    IF rating_thresh # None
    THEN IF np_sum(Drop(rating_probs, 1)) > rating_thresh[1]
         THEN np_argmax(Drop(rating_probs, 1)) + 1
         ELSE 0
    ELSE np_argmax(rating_probs)

rating_idx_sum_ge(rating_probs, rating_thresh, gen_thresh) ==
    IF rating_probs[1] >= gen_thresh THEN 0
    ELSE IF rating_thresh # None
         THEN IF np_sum(Drop(rating_probs, 1)) >= rating_thresh[1]
              THEN np_argmax(Drop(rating_probs, 1)) + 1
              ELSE 0
         ELSE np_argmax(rating_probs)

\* Rules 1-3: the 0-based index into tags of the rating before the split.
rating_idx(rating_probs, rating_thresh, gen_thresh) ==
    IF rating_probs[1] >= gen_thresh THEN 0
    ELSE IF rating_thresh # None
         THEN IF np_sum(Drop(rating_probs, 1)) > rating_thresh[1]
              THEN np_argmax(Drop(rating_probs, 1)) + 1
              ELSE 0
         ELSE np_argmax(rating_probs)

\* Mutant of split_sensitive: the boundary value counts as mild.
split_sensitive_le(rating, rating_probs, split_thresh) ==
    IF rating = "sensitive"
    THEN IF rating_probs[2] <= split_thresh THEN "sensitive_mild"
         ELSE "sensitive_high"
    ELSE rating

\* Mutant of split_sensitive: no split at all.
split_sensitive_none(rating, rating_probs, split_thresh) == rating

\* The sensitive split.
split_sensitive(rating, rating_probs, split_thresh) ==
    IF rating = "sensitive"
    THEN IF rating_probs[2] < split_thresh THEN "sensitive_mild"
         ELSE "sensitive_high"
    ELSE rating

\* Mutant of ignore_override: only the unsplit value is overridden.
ignore_override_unsplit(rating, ignore_sensitive) ==
    IF rating = "sensitive" /\ ignore_sensitive THEN "general" ELSE rating

\* The ignore-sensitive override.
ignore_override(rating, ignore_sensitive) ==
    IF (rating = "sensitive" \/ rating = "sensitive_mild"
            \/ rating = "sensitive_high") /\ ignore_sensitive
    THEN "general"
    ELSE rating

\* What a module binds tqdm to (embed_tags_universal.py 28-31, embed_tags.py
\* 17-19): the class of the tqdm package, or, when the package cannot be
\* imported, a lambda that returns its first argument and has no attribute
\* write.
TqdmImports == {"tqdm", "lambda"}

\* tqdm.write(...) returns; it raises AttributeError otherwise.
tqdm_write(t) == t = "tqdm"

\* Mutant of calculate_rating: the whole of probs is used, not probs[:4].
calculate_rating_unsliced(probs, tags, rating_thresh, split_thresh, ignore_sensitive, gen_thresh, fname_disp, t) ==
    IF fname_disp # <<>> /\ ~tqdm_write(t)
    THEN [exc |-> "AttributeError"]
    ELSE LET idx == rating_idx(probs, rating_thresh, gen_thresh)
             rating == tags[idx + 1]
         IN  [exc |-> "none",
              rating |-> ignore_override(
                             split_sensitive(rating, probs, split_thresh),
                             ignore_sensitive)]

\* calculate_rating(probs, tags, ..., fname_disp) with the module's tqdm
\* being t.  Given a file name (a text that is not empty) it prints the
\* four probabilities through tqdm.write before it decides (316-327) and
\* the folder afterwards (362-372); when tqdm has no write the first print
\* raises AttributeError and nothing is returned.  exc tells how the call
\* ended; rating is what it returned.
calculate_rating(probs, tags, rating_thresh, split_thresh, ignore_sensitive, gen_thresh, fname_disp, t) ==
    IF fname_disp # <<>> /\ ~tqdm_write(t)
    THEN [exc |-> "AttributeError"]
    ELSE LET rating_probs == Take(probs, 4)
             idx == rating_idx(rating_probs, rating_thresh, gen_thresh)
             rating == tags[idx + 1]
         IN  [exc |-> "none",
              rating |-> ignore_override(
                             split_sensitive(rating, rating_probs, split_thresh),
                             ignore_sensitive)]

\* ------------------------------------------------------------------- text
\* A text (a Python str) is the sequence of its characters, each a string
\* of length one.  The spelling of the names the model uses:
Spelling ==
    [n \in {"general", "sensitive", "questionable", "explicit", "1girl"} |->
        CASE n = "general" -> <<"g", "e", "n", "e", "r", "a", "l">>
          [] n = "sensitive" -> <<"s", "e", "n", "s", "i", "t", "i", "v", "e">>
          [] n = "questionable" ->
                 <<"q", "u", "e", "s", "t", "i", "o", "n", "a", "b", "l", "e">>
          [] n = "explicit" -> <<"e", "x", "p", "l", "i", "c", "i", "t">>
          [] n = "1girl" -> <<"1", "g", "i", "r", "l">>]

\* The text of each name of a list, and the name a text spells.
TextsOf(names) == [i \in 1..Len(names) |-> Spelling[names[i]]]
tag_name(text) == CHOOSE n \in DOMAIN Spelling : Spelling[n] = text

\* The characters str.strip() removes: those for which str.isspace() holds.
\* A character that a string cannot hold here is written as its Python
\* escape, and is one element of a text like any other character.
Whitespace ==
    {" ", "\t", "\n", "\r", "\f", "\\x0b", "\\x1c", "\\x1d", "\\x1e", "\\x1f",
     "\\x85", "\\xa0", "\\u1680", "\\u2000", "\\u2001", "\\u2002", "\\u2003",
     "\\u2004", "\\u2005", "\\u2006", "\\u2007", "\\u2008", "\\u2009",
     "\\u200a", "\\u2028", "\\u2029", "\\u202f", "\\u205f", "\\u3000"}

RECURSIVE str_join(_, _)
\* sep.join(texts)
str_join(texts, sep) ==
    IF texts = <<>> THEN <<>>
    ELSE IF Len(texts) = 1 THEN texts[1]
    ELSE texts[1] \o sep \o str_join(Tail(texts), sep)

\* Position of the first character of text equal to sep, 0 when there is none.
str_find(text, sep) ==
    IF \E i \in 1..Len(text) : text[i] = sep
    THEN CHOOSE i \in 1..Len(text) :
            text[i] = sep /\ \A j \in 1..(i - 1) : text[j] # sep
    ELSE 0

RECURSIVE str_split(_, _)
\* text.split(sep) for a one-character sep: "" splits into [""].
str_split(text, sep) ==
    LET i == str_find(text, sep)
    IN  IF i = 0 THEN <<text>>
        ELSE <<SubSeq(text, 1, i - 1)>> \o str_split(SubSeq(text, i + 1, Len(text)), sep)

RECURSIVE str_lstrip(_)
str_lstrip(text) ==
    IF text # <<>> /\ text[1] \in Whitespace THEN str_lstrip(Tail(text)) ELSE text

RECURSIVE str_rstrip(_)
str_rstrip(text) ==
    IF text # <<>> /\ text[Len(text)] \in Whitespace
    THEN str_rstrip(SubSeq(text, 1, Len(text) - 1))
    ELSE text

\* text.strip()
str_strip(text) == str_rstrip(str_lstrip(text))

\* pat in text
str_contains(text, pat) ==
    \E i \in 1..(Len(text) - Len(pat) + 1) : SubSeq(text, i, i + Len(pat) - 1) = pat

\* ------------------------------------------------------- ExifToolWrapper
\* The wrapper object: process is None or the Popen handle last created.
NewWrapper == [process |-> "None", running |-> FALSE]

\* start(); popen_ok tells whether subprocess.Popen succeeds.
ExifToolWrapper_start(w, popen_ok) ==
    IF w.running THEN w
    ELSE IF popen_ok THEN [process |-> "Popen", running |-> TRUE]
    ELSE [w EXCEPT !.running = FALSE]

\* stop()
ExifToolWrapper_stop(w) ==
    IF ~w.running THEN w ELSE [w EXCEPT !.running = FALSE]

\* What the pipe to the child does during one execute(): "ok" (the child
\* answers and ends with {ready}), "eof" (the child's stdout is closed:
\* readline returns nothing) or "error" (writing or reading raises).
PipeOutcomes == {"ok", "eof", "error"}

RECURSIVE read_lines(_)
\* The loop over readline(): every line is stripped and kept, up to the
\* first line that reads {ready}.
read_lines(lines) ==
    IF lines = <<>> \/ str_strip(Head(lines)) = <<"{", "r", "e", "a", "d", "y", "}">> THEN <<>>
    ELSE <<str_strip(Head(lines))>> \o read_lines(Tail(lines))

\* execute(args): output is what the child prints before the line {ready}
\* when the pipe is "ok", its lines separated by "\n".  Returns the wrapper
\* afterwards and the string returned.
ExifToolWrapper_execute(w, popen_ok, pipe, output) ==
    LET w1 == IF ~w.running THEN ExifToolWrapper_start(w, popen_ok) ELSE w
        output_lines == IF output = <<>> THEN <<>>
                        ELSE read_lines(str_split(output, "\n"))
    IN  IF ~w1.running THEN [w |-> w1, res |-> <<>>, sent |-> FALSE]
        ELSE IF pipe = "ok"
        THEN [w |-> w1, res |-> str_join(output_lines, <<"\n">>), sent |-> TRUE]
        ELSE IF pipe = "eof" THEN [w |-> w1, res |-> <<>>, sent |-> TRUE]
        ELSE [w |-> ExifToolWrapper_stop(w1), res |-> <<>>, sent |-> FALSE]

\* What exiftool prints for -XMP:Subject -s3 -sep ", " on a file holding
\* the tags held: nothing when there are none.
exiftool_subject(held) == str_join(TextsOf(held), <<",", " ">>)

\* The list get_tags builds from a non-empty answer: each piece between
\* commas, stripped, as a text.
parse_tags(res) ==
    LET parts == str_split(res, ",")
    IN  [i \in 1..Len(parts) |-> str_strip(parts[i])]

\* Mutant of ExifToolWrapper_get_tags: the answer is taken as one tag.
ExifToolWrapper_get_tags_nosplit(w, popen_ok, pipe, held) ==
    LET r == ExifToolWrapper_execute(w, popen_ok, pipe, exiftool_subject(held))
    IN  [w |-> r.w, tags |-> IF r.res # <<>> THEN <<r.res>> ELSE <<>>]

\* get_tags(path) on a file holding the tags held.
ExifToolWrapper_get_tags(w, popen_ok, pipe, held) ==
    LET r == ExifToolWrapper_execute(w, popen_ok, pipe, exiftool_subject(held))
    IN  [w |-> r.w, tags |-> IF r.res # <<>> THEN parse_tags(r.res) ELSE <<>>]

\* What exiftool prints after a write command, each line indented by four
\* spaces: the file was rewritten, or it was not.
ExifWriteReports ==
    [updated |->
        <<" ", " ", " ", " ", "1", " ", "i", "m", "a", "g", "e", " ",
          "f", "i", "l", "e", "s", " ", "u", "p", "d", "a", "t", "e", "d">>,
     failed |->
        <<" ", " ", " ", " ", "0", " ", "i", "m", "a", "g", "e", " ",
          "f", "i", "l", "e", "s", " ", "u", "p", "d", "a", "t", "e", "d", "\n",
          " ", " ", " ", " ", "1", " ", "f", "i", "l", "e", "s", " ",
          "w", "e", "r", "e", "n", "'", "t", " ", "u", "p", "d", "a", "t", "e", "d", " ",
          "d", "u", "e", " ", "t", "o", " ", "e", "r", "r", "o", "r", "s">>]

\* "image files updated"
image_files_updated ==
    <<"i", "m", "a", "g", "e", " ", "f", "i", "l", "e", "s", " ",
      "u", "p", "d", "a", "t", "e", "d">>

\* write_tags(path, tags): ok is the value returned, called tells whether
\* execute was entered, stored whether the child rewrote the file's tags.
ExifToolWrapper_write_tags(w, tags, popen_ok, pipe, report) ==
    IF tags = <<>> THEN [w |-> w, ok |-> FALSE, called |-> FALSE, stored |-> FALSE]
    ELSE LET r == ExifToolWrapper_execute(w, popen_ok, pipe, ExifWriteReports[report])
         IN  [w |-> r.w,
              ok |-> str_contains(r.res, image_files_updated),
              called |-> TRUE,
              stored |-> r.sent /\ pipe = "ok" /\ report = "updated"]

\* ---------------------------------------------------------- process_images
\* Largest number of files collect_images returns.
NumImages == 2
\* Largest number of tags a file holds before the run.
MaxTags == 2

\* In parts of ten thousand (5000 is 0.50): the configuration as shipped
\* and the --thresh default.
APP_CONFIG ==
    [sensitive_split_threshold |-> 5000, general_threshold |-> 4000,
     folder_names |-> folder_names]
thresh_default == 3500

\* Values an output of the inference takes here, in parts of ten thousand:
\* 0, 1/4, 5/16, 3/8, 7/16 and 3/4, binary fractions, whose sums are exact
\* in the code's floats.  Three of them lie at or below thresh (0.35), so
\* that several undetected values can exceed rating_thresh together and any
\* of them be the largest; 3/8 lies between thresh and general_threshold
\* (0.40), 7/16 between 3/8 and the split (0.50), 3/4 above all.  Every
\* pair of a rating and a list of detected tags that the code computes
\* from some answer is computed from a vector over these values.
ProbLevels == {0, 2500, 3125, 3750, 4375, 7500}

\* The answers of an inference: one sigmoid output for each tag of
\* tags_global, each independent of the others.
InferProbs == [1..Len(tags_global) -> ProbLevels]

\* Tags a file may hold before the run, and the tag lists (no tag twice).
StoredTags == {"sensitive", "questionable", "1girl"}
RECURSIVE ListsUpTo(_)
ListsUpTo(n) ==
    IF n = 0 THEN {<<>>}
    ELSE LET shorter == ListsUpTo(n - 1)
         IN  shorter \cup
             {Append(l, t) : l \in {x \in shorter : Len(x) = n - 1},
                             t \in StoredTags}
TagLists ==
    {l \in ListsUpTo(MaxTags) : \A a, b \in 1..Len(l) : a # b => l[a] # l[b]}

\* The parsed command line (the flags process_images reads).
ArgsSet ==
    [mode : {"standalone", "client"},
     no_tag : BOOLEAN, organize : BOOLEAN, no_report : BOOLEAN,
     force : BOOLEAN, ignore_sensitive : BOOLEAN,
     rating_thresh : {None, Some(5000)},
     thresh : {thresh_default}]

\* [tags[i] for i, p in enumerate(probs) if p > thresh]
RECURSIVE detect_from(_, _, _, _)
detect_from(probs, tags, thresh, i) ==
    IF i > Len(probs) THEN <<>>
    ELSE (IF probs[i] > thresh THEN <<tags[i]>> ELSE <<>>)
         \o detect_from(probs, tags, thresh, i + 1)
detect_tags(probs, tags, thresh) == detect_from(probs, tags, thresh, 1)

\* [t for t in existing_tags if t in RATING_TAGS]; existing_tags holds
\* texts.
IsRatingTag(t) == \E k \in 1..Len(RATING_TAGS) : Spelling[RATING_TAGS[k]] = t
found_ratings(existing_tags) == SelectSeq(existing_tags, IsRatingTag)

\* Mutants of gate.
gate_trust_in_legacy(force, organize, rating_thresh, existing_tags) ==
    IF force THEN [need_inference |-> TRUE, rating |-> None]
    ELSE IF existing_tags # <<>>
    THEN IF organize
         THEN IF found_ratings(existing_tags) # <<>>
              THEN [need_inference |-> FALSE,
                    rating |-> Some(tag_name(found_ratings(existing_tags)[1]))]
              ELSE [need_inference |-> TRUE, rating |-> None]
         ELSE [need_inference |-> FALSE, rating |-> None]
    ELSE [need_inference |-> TRUE, rating |-> None]

gate_last_found(force, organize, rating_thresh, existing_tags) ==
    IF force THEN [need_inference |-> TRUE, rating |-> None]
    ELSE IF existing_tags # <<>>
    THEN IF rating_thresh # None
         THEN [need_inference |-> TRUE, rating |-> None]
         ELSE IF organize
         THEN IF found_ratings(existing_tags) # <<>>
              THEN [need_inference |-> FALSE,
                    rating |-> Some(tag_name(found_ratings(existing_tags)[
                                        Len(found_ratings(existing_tags))]))]
              ELSE [need_inference |-> TRUE, rating |-> None]
         ELSE [need_inference |-> FALSE, rating |-> None]
    ELSE [need_inference |-> TRUE, rating |-> None]

gate_always_infer(force, organize, rating_thresh, existing_tags) ==
    IF force THEN [need_inference |-> TRUE, rating |-> None]
    ELSE IF existing_tags # <<>>
    THEN IF rating_thresh # None
         THEN [need_inference |-> TRUE, rating |-> None]
         ELSE IF organize
         THEN IF found_ratings(existing_tags) # <<>>
              THEN [need_inference |-> FALSE,
                    rating |-> Some(tag_name(found_ratings(existing_tags)[1]))]
              ELSE [need_inference |-> TRUE, rating |-> None]
         ELSE [need_inference |-> TRUE, rating |-> None]
    ELSE [need_inference |-> TRUE, rating |-> None]

\* The decision whether to infer: need_inference and the rating carried
\* from the existing tags (None when none is).
gate(force, organize, rating_thresh, existing_tags) ==
    IF force THEN [need_inference |-> TRUE, rating |-> None]
    ELSE IF existing_tags # <<>>
    THEN IF rating_thresh # None
         THEN [need_inference |-> TRUE, rating |-> None]
         ELSE IF organize
         THEN IF found_ratings(existing_tags) # <<>>
              THEN [need_inference |-> FALSE,
                    rating |-> Some(tag_name(found_ratings(existing_tags)[1]))]
              ELSE [need_inference |-> TRUE, rating |-> None]
         ELSE [need_inference |-> FALSE, rating |-> None]
    ELSE [need_inference |-> TRUE, rating |-> None]

\* should_write
should_write(force, existing_tags) == force \/ existing_tags = <<>>

\* organize_file(file_path, rating): the directory chosen, and whether the
\* file moved there; fs is what the file system does: "moved", "same" (the
\* file already lies in that directory) or "error" (the move raises, and
\* the handler reports through tqdm.write, which raises in its turn when t
\* has no write).
organize_file(rating, fs, t) ==
    [folder |-> IF rating \in DOMAIN APP_CONFIG.folder_names
                THEN APP_CONFIG.folder_names[rating] ELSE rating,
     moved |-> fs = "moved",
     raised |-> fs = "error" /\ ~tqdm_write(t)]

\* ------------------------------------------------------------------- state
VARIABLES
    cr_args,        \* the arguments of a calculate_rating call
    cr_ret,         \* its result, once it has returned
    args,           \* the parsed command line of the run
    pc,             \* where process_images stands
    nfiles,         \* len(target_files)
    pos,            \* number of files the loop has taken from target_files
    et_wrapper,     \* the ExifToolWrapper object
    loc,            \* the locals of the current loop iteration
    REPORT_DATA,    \* the report entries, each abbreviated to its file
    tqdm,           \* the module's name tqdm: the class, or the fallback lambda
    cr_calls,       \* repeated calculate_rating calls on one leading four
    xmp,            \* a write_xmp_passthrough_safe call (embed_tags.py)
    md              \* a merge_defaults call and its repetition

rating_vars == <<cr_args, cr_ret>>
run_vars == <<args, pc, nfiles, pos, et_wrapper, loc, REPORT_DATA, tqdm>>
other_vars == <<cr_calls, xmp, md>>
vars ==
    <<cr_args, cr_ret, args, pc, nfiles, pos, et_wrapper, loc, REPORT_DATA,
      tqdm, cr_calls, xmp, md>>

Prob == 0..MaxP
ProbVectors == [1..4 -> Prob]
RatingThreshs == {None} \cup {Some(t) : t \in Prob}

\* No call of calculate_rating has ended; no call is made at all.  Of a
\* call that has ended, done tells that it returned and exc names the
\* exception it raised instead.
NotCalled == [done |-> FALSE, exc |-> "none"]
IdleArgs == <<>>

\* The locals as the top of an iteration sets them; held is what the file
\* holds on disk, known from step 1 on.
FreshLocals(held) ==
    [held |-> held,             \* XMP:Subject of the file when step 1 looks at it
     existing_tags |-> <<>>,
     need_inference |-> TRUE,
     rating |-> None,
     inferred |-> FALSE,        \* probs is not None
     detected_tags |-> <<>>,
     wrote |-> FALSE,           \* write_tags was called on the file
     write_ok |-> FALSE,        \* ... and returned True
     stored |-> FALSE,          \* ... and the child rewrote the file's tags
     organized |-> None,        \* the rating passed to organize_file
     moved |-> FALSE,
     reported |-> FALSE,        \* an entry was appended to REPORT_DATA
     exc |-> "none"]            \* how the iteration ended early, if it did

\* The locals once process_images has been left: the frame is gone, and
\* what remains of the last iteration is what it did to the file (stored,
\* moved) and the way the run ended (exc); the other fields are as in
\* FreshLocals.
left(l, exc) ==
    [held |-> l.held, existing_tags |-> <<>>, need_inference |-> TRUE,
     rating |-> None, inferred |-> FALSE, detected_tags |-> <<>>,
     wrote |-> FALSE, write_ok |-> FALSE, stored |-> l.stored,
     organized |-> None, moved |-> l.moved, reported |-> FALSE, exc |-> exc]

IdleRun ==
    /\ args = [mode |-> "standalone", no_tag |-> FALSE, organize |-> FALSE,
               no_report |-> FALSE, force |-> FALSE, ignore_sensitive |-> FALSE,
               rating_thresh |-> None, thresh |-> thresh_default]
    /\ pc = "idle"
    /\ nfiles = 0
    /\ pos = 0
    /\ et_wrapper = NewWrapper
    /\ loc = FreshLocals(<<>>)
    /\ REPORT_DATA = <<>>

\* No repeated call, no write_xmp_passthrough_safe call and no
\* merge_defaults call has been made.
NoCalls == [n |-> 0, tails |-> {}, ratings |-> {}]
IdleXmp == [pc |-> "idle"]
IdleMd == [ret |-> <<>>]

\* ------------------------------------------- specification: calculate_rating
\* The file names a caller passes as fname_disp: none (the default ""), or
\* a name.
FnameDisps == {<<>>, <<"a">>}

InitRating ==
    /\ cr_args \in [probs : ProbVectors,
                    rating_thresh : RatingThreshs,
                    split_thresh : Prob,
                    ignore_sensitive : BOOLEAN,
                    gen_thresh : Prob,
                    fname_disp : FnameDisps]
    /\ cr_ret = NotCalled
    /\ IdleRun
    /\ tqdm \in TqdmImports
    /\ cr_calls = NoCalls
    /\ xmp = IdleXmp
    /\ md = IdleMd

CalculateRating ==
    /\ cr_ret = NotCalled
    /\ LET r == calculate_rating(cr_args.probs, tags_global,
                                 cr_args.rating_thresh, cr_args.split_thresh,
                                 cr_args.ignore_sensitive, cr_args.gen_thresh,
                                 cr_args.fname_disp, tqdm)
       IN  cr_ret' =
             IF r.exc # "none"
             THEN [done |-> FALSE, exc |-> r.exc]
             ELSE [done |-> TRUE, exc |-> "none",
                   rating_idx |-> rating_idx(Take(cr_args.probs, 4),
                                             cr_args.rating_thresh,
                                             cr_args.gen_thresh),
                   rating |-> r.rating]
    /\ UNCHANGED <<cr_args, run_vars, other_vars>>

NextRating == CalculateRating

SpecRating == InitRating /\ [][NextRating]_vars

\* ------------------------------- specification: repeated calculate_rating
\* Largest number of calls made on one argument tuple.
MaxCalls == 2

\* What follows the four rating entries in probs: nothing, or the
\* probability of the content tag that follows them in tags.
ProbTails == {<<>>, <<0>>, <<MaxP>>}

InitCalls ==
    /\ cr_args \in [probs : ProbVectors,
                    rating_thresh : RatingThreshs,
                    split_thresh : Prob,
                    ignore_sensitive : BOOLEAN,
                    gen_thresh : Prob]
    /\ cr_ret = NotCalled
    /\ IdleRun
    /\ tqdm \in TqdmImports
    /\ cr_calls = NoCalls
    /\ xmp = IdleXmp
    /\ md = IdleMd

\* One more call with the same leading four entries and configuration;
\* the caller chooses what follows the four entries and the file name.
\* ratings collects what the calls returned; a call that raised returned
\* nothing.
call_again(c, a, tail, fname_disp, t) ==
    LET r == calculate_rating(a.probs \o tail, tags_global, a.rating_thresh,
                              a.split_thresh, a.ignore_sensitive, a.gen_thresh,
                              fname_disp, t)
    IN  [n |-> c.n + 1,
         tails |-> c.tails \cup {tail},
         ratings |-> c.ratings \cup (IF r.exc = "none" THEN {r.rating} ELSE {})]

CallAgain ==
    /\ cr_calls.n < MaxCalls
    /\ \E c \in {call_again(cr_calls, cr_args, tail, fname_disp, tqdm) :
                    tail \in ProbTails, fname_disp \in FnameDisps} :
         cr_calls' = c
    /\ UNCHANGED <<rating_vars, run_vars, xmp, md>>

NextCalls == CallAgain

SpecCalls == InitCalls /\ [][NextCalls]_vars

\* ------------------------------------------- specification: merge_defaults
\* A dict is the set of its items, no two with one key.  An item holds a
\* scalar (scalar, val) or a dict (sub, the set of its items); the nesting
\* is that of DEFAULT_CONFIG, whose folder_names holds scalars.
\* Largest scalar value of a configuration entry.
MaxVal == 2
Vals == 1..MaxVal
Keys == {"general_threshold", "folder_names"}
SubKeys == {"general", "explicit"}

Leaf(k, v) == [k |-> k, scalar |-> TRUE, val |-> v, sub |-> {}]
Node(k, d) == [k |-> k, scalar |-> FALSE, val |-> 0, sub |-> d]

\* The dicts whose keys are among keys and whose items are among items.
DictsOver(items, keys) ==
    UNION {{{f[k] : k \in K} : f \in {g \in [K -> items] : \A k \in K : g[k].k = k}} : K \in SUBSET keys}

SubDicts == DictsOver({Leaf(k, v) : k \in SubKeys, v \in Vals}, SubKeys)
Dicts ==
    DictsOver({Leaf(k, v) : k \in Keys, v \in Vals}
                  \cup {Node(k, d) : k \in Keys, d \in SubDicts}, Keys)

\* k in d, and d[k] as an item.
has_key(d, k) == \E i \in d : i.k = k
dict_get(d, k) == CHOOSE i \in d : i.k = k

\* Mutant of merge_defaults: nested dicts are not entered.
merge_defaults_shallow(target, source) ==
    LET added == {i \in source : ~has_key(target, i.k)}
    IN  [target |-> target \cup added, has_change |-> added # {}]

\* merge_defaults(target, source): target after the call (the code changes
\* it in place) and the value returned.
RECURSIVE merge_defaults(_, _)
merge_defaults(target, source) ==
    LET added == {i \in source : ~has_key(target, i.k)}
        both_dicts(t) ==
            has_key(source, t.k) /\ ~dict_get(source, t.k).scalar /\ ~t.scalar
        inner(t) == merge_defaults(t.sub, dict_get(source, t.k).sub)
    IN  [target |->
            {IF both_dicts(t) THEN [t EXCEPT !.sub = inner(t).target] ELSE t :
                t \in target} \cup added,
         has_change |->
            added # {} \/ \E t \in target : both_dicts(t) /\ inner(t).has_change]

InitMerge ==
    /\ cr_args = IdleArgs
    /\ cr_ret = NotCalled
    /\ IdleRun
    /\ tqdm = "tqdm"
    /\ cr_calls = NoCalls
    /\ xmp = IdleXmp
    /\ \E t \in Dicts, src \in Dicts :
         md = [source |-> src, original |-> t, first |-> t, target |-> t,
               ret |-> <<>>]

\* merge_defaults(user_config, DEFAULT_CONFIG) as load_config calls it.
MergeDefaults ==
    /\ md.ret = <<>>
    /\ LET r == merge_defaults(md.target, md.source)
       IN  md' = [md EXCEPT !.target = r.target, !.first = r.target,
                            !.ret = <<r.has_change>>]
    /\ UNCHANGED <<rating_vars, run_vars, cr_calls, xmp>>

\* The same call once more, on the merged dict.
MergeDefaultsAgain ==
    /\ Len(md.ret) = 1
    /\ LET r == merge_defaults(md.target, md.source)
       IN  md' = [md EXCEPT !.target = r.target,
                            !.ret = Append(md.ret, r.has_change)]
    /\ UNCHANGED <<rating_vars, run_vars, cr_calls, xmp>>

NextMerge == MergeDefaults \/ MergeDefaultsAgain

SpecMerge == InitMerge /\ [][NextMerge]_vars

\* ------------------- specification: write_xmp_passthrough_safe (embed_tags.py)
\* The file is at abs_path (at_orig) or at temp_path (at_temp); subject is
\* its XMP subject; renames counts the os.rename calls, ran tells that
\* subprocess.run was called and cmd_tags is the value it passed; exc is the
\* exception the try block raised and pending the exception that is on its
\* way out of the function.  Every message goes through tqdm.write (82, 85,
\* 88, 94), which raises AttributeError when the module's tqdm is the
\* fallback lambda.  pc: "call", "run", "finally", and the ends "returned"
\* and "raised" (left by the pending exception).

\* ", ".join(tags_list)
tags_str(tags_list) == str_join(TextsOf(tags_list), <<",", " ">>)

\* The list exiftool stores for -sep ", " -XMP:Subject=value: the value cut
\* at each ", ".
exiftool_store(value) == IF value = <<>> THEN <<>> ELSE parse_tags(value)

\* What subprocess.run does: exiftool rewrites the file ("ok"), exits with
\* a non-zero code ("nonzero"), cannot be started ("OSError", as when the
\* executable is missing) or the call raises something else ("Exception").
RunOutcomes == {"ok", "nonzero", "OSError", "Exception"}

\* The guard and os.rename(abs_path, temp_path).  A failed rename goes to
\* the OSError clause, which reports and returns.
write_xmp_rename(x, rename_ok, t) ==
    IF x.tags_list = <<>> THEN [x EXCEPT !.pc = "returned"]
    ELSE IF rename_ok
    THEN [x EXCEPT !.at_orig = FALSE, !.at_temp = TRUE, !.renames = 1,
                   !.pc = "run"]
    ELSE [x EXCEPT !.renames = 1, !.exc = "OSError",
                   !.pending = IF tqdm_write(t) THEN "none" ELSE "AttributeError",
                   !.pc = "finally"]

\* subprocess.run(cmd) on temp_path and the except clauses.  A non-zero
\* exit is reported inside the try block (82): without write the report
\* raises AttributeError there, which the clause 'except Exception' takes.
\* Each except clause reports (85, 88), and without write leaves by
\* AttributeError.
write_xmp_run(x, outcome, t) ==
    LET raised == IF outcome \in {"OSError", "Exception"} THEN outcome
                  ELSE IF outcome = "nonzero" /\ ~tqdm_write(t)
                  THEN "AttributeError"
                  ELSE "none"
    IN  [x EXCEPT !.ran = TRUE,
                  !.cmd_tags = tags_str(x.tags_list),
                  !.subject = IF outcome = "ok"
                              THEN exiftool_store(tags_str(x.tags_list))
                              ELSE x.subject,
                  !.exc = raised,
                  !.pending = IF raised # "none" /\ ~tqdm_write(t)
                              THEN "AttributeError" ELSE "none",
                  !.pc = "finally"]

\* How the function is left once the finally clause is through.
write_xmp_end(pending) == IF pending = "none" THEN "returned" ELSE "raised"

\* Mutant of write_xmp_finally: the return in the OSError clause leaves
\* without restoring.
write_xmp_finally_skipped(x, restore_ok, t) ==
    IF x.at_temp /\ x.exc # "OSError"
    THEN IF restore_ok
         THEN [x EXCEPT !.at_orig = TRUE, !.at_temp = FALSE,
                        !.renames = x.renames + 1,
                        !.pc = write_xmp_end(x.pending)]
         ELSE [x EXCEPT !.restore_failed = TRUE,
                        !.renames = x.renames + 1,
                        !.pending = IF tqdm_write(t) THEN x.pending
                                    ELSE "AttributeError",
                        !.pc = write_xmp_end(IF tqdm_write(t) THEN x.pending
                                             ELSE "AttributeError")]
    ELSE [x EXCEPT !.pc = write_xmp_end(x.pending)]

\* The finally clause: the file is renamed back when temp_path exists; a
\* failed restore is reported (94), and without write the report raises
\* AttributeError in place of whatever was pending.
write_xmp_finally(x, restore_ok, t) ==
    IF x.at_temp
    THEN IF restore_ok
         THEN [x EXCEPT !.at_orig = TRUE, !.at_temp = FALSE,
                        !.renames = x.renames + 1,
                        !.pc = write_xmp_end(x.pending)]
         ELSE [x EXCEPT !.restore_failed = TRUE,
                        !.renames = x.renames + 1,
                        !.pending = IF tqdm_write(t) THEN x.pending
                                    ELSE "AttributeError",
                        !.pc = write_xmp_end(IF tqdm_write(t) THEN x.pending
                                             ELSE "AttributeError")]
    ELSE [x EXCEPT !.pc = write_xmp_end(x.pending)]

InitXmp ==
    /\ cr_args = IdleArgs
    /\ cr_ret = NotCalled
    /\ IdleRun
    /\ tqdm \in TqdmImports
    /\ cr_calls = NoCalls
    /\ \E t \in TagLists, held \in TagLists :
         xmp = [pc |-> "call", tags_list |-> t, subject |-> TextsOf(held),
                at_orig |-> TRUE, at_temp |-> FALSE, renames |-> 0,
                ran |-> FALSE, cmd_tags |-> <<>>, restore_failed |-> FALSE,
                exc |-> "none", pending |-> "none"]
    /\ md = IdleMd

XmpRename ==
    /\ xmp.pc = "call"
    /\ \E rename_ok \in BOOLEAN : xmp' = write_xmp_rename(xmp, rename_ok, tqdm)
    /\ UNCHANGED <<rating_vars, run_vars, cr_calls, md>>

XmpRun ==
    /\ xmp.pc = "run"
    /\ \E outcome \in RunOutcomes : xmp' = write_xmp_run(xmp, outcome, tqdm)
    /\ UNCHANGED <<rating_vars, run_vars, cr_calls, md>>

XmpFinally ==
    /\ xmp.pc = "finally"
    /\ \E restore_ok \in BOOLEAN : xmp' = write_xmp_finally(xmp, restore_ok, tqdm)
    /\ UNCHANGED <<rating_vars, run_vars, cr_calls, md>>

NextXmp == XmpRename \/ XmpRun \/ XmpFinally

SpecXmp == InitXmp /\ [][NextXmp]_vars

\* ------------------------------------------- specification: process_images
\* pc: "start" (entry), "head" (the for statement, a file left to take),
\* "read" (reading the existing tags and deciding), "infer", "write",
\* "organize" (organizing and reporting), "after_loop" (the list is
\* exhausted or the loop was broken), "handler" (the KeyboardInterrupt
\* clause of the loop body), and the ends "done" (returned), "exit"
\* (sys.exit after an interrupt) and "raised" (an exception left the function).
Init ==
    /\ cr_args = IdleArgs
    /\ cr_ret = NotCalled
    /\ args \in ArgsSet
    /\ pc = "start"
    /\ nfiles = 0
    /\ pos = 0
    /\ et_wrapper = NewWrapper
    /\ loc = FreshLocals(<<>>)
    /\ REPORT_DATA = <<>>
    /\ tqdm \in TqdmImports
    /\ cr_calls = NoCalls
    /\ xmp = IdleXmp
    /\ md = IdleMd

StopIfTagging(a, w) == IF ~a.no_tag THEN ExifToolWrapper_stop(w) ELSE w

\* Everything before the loop.  load_ok: the model (standalone) or the tag
\* list (client) loads; popen_ok: exiftool starts; n: files collected.
before_loop(a, w, load_ok, popen_ok, n) ==
    IF a.mode # "client" /\ ~load_ok THEN [pc |-> "raised", w |-> w, nfiles |-> 0]
    ELSE LET w1 == IF ~a.no_tag THEN ExifToolWrapper_start(w, popen_ok) ELSE w
         IN  IF a.mode = "client" /\ ~load_ok
             THEN [pc |-> "raised", w |-> w1, nfiles |-> 0]
             ELSE IF n = 0
             THEN [pc |-> "done", w |-> StopIfTagging(a, w1), nfiles |-> 0]
             ELSE [pc |-> "head", w |-> w1, nfiles |-> n]

Start ==
    /\ pc = "start"
    /\ \E load_ok \in BOOLEAN, popen_ok \in BOOLEAN, n \in {0, NumImages} :
         LET r == before_loop(args, et_wrapper, load_ok, popen_ok, n)
         IN  /\ pc' = r.pc
             /\ et_wrapper' = r.w
             /\ nfiles' = r.nfiles
    /\ UNCHANGED <<rating_vars, other_vars, tqdm, args, pos, loc, REPORT_DATA>>

\* The for statement takes the next file and the top of the body resets
\* the locals.
LoopNext ==
    /\ pc = "head"
    /\ pos < nfiles
    /\ loc' = FreshLocals(<<>>)
    /\ pos' = pos + 1
    /\ pc' = "read"
    /\ UNCHANGED <<rating_vars, other_vars, tqdm, args, nfiles, et_wrapper, REPORT_DATA>>

\* Where the end of an iteration leads: to the for statement, which takes
\* the next file or finds the list exhausted.
next_file(p, n) == IF p < n THEN "head" ELSE "after_loop"

\* Step 1: the existing tags are read when the wrapper runs, and the gate
\* decides.
read_existing(a, w, pipe, held) ==
    IF (~a.no_tag \/ a.organize) /\ w.running
    THEN ExifToolWrapper_get_tags(w, TRUE, pipe, held)
    ELSE [w |-> w, tags |-> <<>>]

\* Step 1 on a file that holds the tags held: the wrapper and the locals
\* afterwards.
read_and_gate(a, w, l, pipe, held) ==
    LET r == read_existing(a, w, pipe, held)
        g == gate(a.force, a.organize, a.rating_thresh, r.tags)
    IN  [w |-> r.w,
         l |-> [l EXCEPT !.held = held,
                         !.existing_tags = r.tags,
                         !.need_inference = g.need_inference,
                         !.rating = g.rating]]

\* The file holds whatever an earlier tool left there.
ReadTags ==
    /\ pc = "read"
    /\ \E r \in {read_and_gate(args, et_wrapper, loc, pipe, held) :
                    pipe \in PipeOutcomes, held \in TagLists} :
         /\ et_wrapper' = r.w
         /\ loc' = r.l
    /\ pc' = "infer"
    /\ UNCHANGED <<rating_vars, other_vars, tqdm, args, nfiles, pos, REPORT_DATA>>

\* Step 2 when no inference is needed.
SkipInference ==
    /\ pc = "infer"
    /\ ~loc.need_inference
    /\ pc' = "write"
    /\ UNCHANGED <<rating_vars, other_vars, tqdm, args, nfiles, pos, et_wrapper, loc, REPORT_DATA>>

\* What step 2 computes from the answer probs of the inference, tqdm being
\* t: calculate_rating is called with the file's name (538-547), then the
\* tags are detected; exc is the exception calculate_rating raised.
inferred_from(a, t, probs) ==
    LET c == calculate_rating(probs, tags_global, a.rating_thresh,
                              APP_CONFIG.sensitive_split_threshold,
                              a.ignore_sensitive,
                              APP_CONFIG.general_threshold, <<"a">>, t)
    IN  IF c.exc # "none"
        THEN [exc |-> c.exc, rating |-> None, detected_tags |-> <<>>]
        ELSE [exc |-> "none", rating |-> Some(c.rating),
              detected_tags |-> detect_tags(probs, tags_global, a.thresh)]

\* The flags step 2 reads, and its results over all answers for each
\* value of them and of tqdm.
infer_args(a) ==
    [rating_thresh |-> a.rating_thresh, ignore_sensitive |-> a.ignore_sensitive,
     thresh |-> a.thresh]
InferResults ==
    [a \in {infer_args(x) : x \in ArgsSet}, t \in TqdmImports |->
        {inferred_from(a, t, probs) : probs \in InferProbs}]

\* An exception e other than KeyboardInterrupt and URLError raised in the
\* loop body: the clause at 591 reports it through tqdm.write and the loop
\* goes on; when tqdm has no write the report raises AttributeError inside
\* the clause and process_images is left, the wrapper as it is.
reported(t, exc, l, p, n) ==
    IF tqdm_write(t)
    THEN [l |-> [l EXCEPT !.exc = exc], pc |-> next_file(p, n)]
    ELSE [l |-> left(l, "AttributeError"), pc |-> "raised"]

\* Step 2: the inference answers with probs and calculate_rating is called
\* with the file's name; an AttributeError out of it goes to the clause at
\* 591.
Infer ==
    /\ pc = "infer"
    /\ loc.need_inference
    /\ \E r \in InferResults[infer_args(args), tqdm] :
         IF r.exc = "none"
         THEN /\ loc' = [loc EXCEPT !.inferred = TRUE,
                                    !.rating = r.rating,
                                    !.detected_tags = r.detected_tags]
              /\ pc' = "write"
         ELSE LET f == reported(tqdm, r.exc, loc, pos, nfiles)
              IN  loc' = f.l /\ pc' = f.pc
    /\ UNCHANGED <<rating_vars, other_vars, tqdm, args, nfiles, pos, et_wrapper, REPORT_DATA>>

\* Ways the inference step fails: any exception, and for a client a
\* URLError from urlopen (no connection), an HTTPError from urlopen (the
\* server answers with an error status, as TagServerHandler does with 500
\* for an image it cannot handle) or an answer whose status is not 200.
InferFailures(a) ==
    {"Exception"} \cup
    (IF a.mode = "client" THEN {"URLError", "HTTPError", "continue"} ELSE {})

\* How the iteration ends after failure exc: HTTPError is a subclass of
\* URLError, whose except clause reports (585) and breaks the loop; a status
\* other than 200 is reported (526) before continue; anything else goes to
\* the clause at 591.  Each report is a tqdm.write: without write it raises
\* AttributeError, out of the except clause it is in, or, at 526, into the
\* clause at 591, whose report raises again.
after_failure(t, exc, l, p, n) ==
    IF exc \in {"URLError", "HTTPError"}
    THEN IF tqdm_write(t) THEN [l |-> [l EXCEPT !.exc = exc], pc |-> "after_loop"]
         ELSE [l |-> left(l, "AttributeError"), pc |-> "raised"]
    ELSE IF exc = "continue"
    THEN IF tqdm_write(t) THEN [l |-> [l EXCEPT !.exc = exc], pc |-> next_file(p, n)]
         ELSE reported(t, "AttributeError", l, p, n)
    ELSE reported(t, exc, l, p, n)

InferFails ==
    /\ pc = "infer"
    /\ loc.need_inference
    /\ \E exc \in InferFailures(args) :
         LET r == after_failure(tqdm, exc, loc, pos, nfiles)
         IN  loc' = r.l /\ pc' = r.pc
    /\ UNCHANGED <<rating_vars, other_vars, tqdm, args, nfiles, pos, et_wrapper, REPORT_DATA>>

\* Step 3: write_tags is called when tagging is on, should_write holds and
\* something was detected.
calls_write(a, l) ==
    ~a.no_tag /\ should_write(a.force, l.existing_tags) /\ l.detected_tags # <<>>

\* The states of the wrapper, the lists of detected tags, and what
\* write_tags does on each over all outcomes of the call.
WrapperStates ==
    {NewWrapper} \cup {[process |-> "Popen", running |-> r] : r \in BOOLEAN}
DetectedLists ==
    UNION {{r.detected_tags : r \in InferResults[k]} : k \in DOMAIN InferResults}
WriteResults ==
    [w \in WrapperStates, tags \in DetectedLists |->
        {ExifToolWrapper_write_tags(w, tags, popen_ok, pipe, report) :
            popen_ok \in BOOLEAN, pipe \in PipeOutcomes,
            report \in DOMAIN ExifWriteReports}]

WriteTags ==
    /\ pc = "write"
    /\ calls_write(args, loc)
    /\ \E r \in WriteResults[et_wrapper, loc.detected_tags] :
         /\ et_wrapper' = r.w
         /\ loc' = [loc EXCEPT !.wrote = r.called, !.write_ok = r.ok,
                               !.stored = r.stored]
    /\ pc' = "organize"
    /\ UNCHANGED <<rating_vars, other_vars, tqdm, args, nfiles, pos, REPORT_DATA>>

SkipWrite ==
    /\ pc = "write"
    /\ ~calls_write(args, loc)
    /\ pc' = "organize"
    /\ UNCHANGED <<rating_vars, other_vars, tqdm, args, nfiles, pos, et_wrapper, loc, REPORT_DATA>>

\* Steps 4 and 5 for one outcome fs of the move: the file is organized when
\* asked and a rating is known; a report entry is appended when reports are
\* on and an inference ran.  An exception out of organize_file goes to the
\* clause at 591.  Returns the locals, the next pc and whether an entry is
\* appended.
organize_and_report(a, t, l, fs, p, n) ==
    LET go == a.organize /\ l.rating # None
        rep == ~a.no_report /\ l.inferred
        o == organize_file(l.rating[1], fs, t)
    IN  IF go /\ o.raised
        THEN LET r == reported(t, "AttributeError",
                               [l EXCEPT !.organized = l.rating], p, n)
             IN  [l |-> r.l, pc |-> r.pc, rep |-> FALSE]
        ELSE [l |-> [l EXCEPT !.organized = IF go THEN l.rating ELSE None,
                              !.moved = go /\ o.moved,
                              !.reported = rep],
              pc |-> next_file(p, n), rep |-> rep]

Organize ==
    /\ pc = "organize"
    /\ \E r \in {organize_and_report(args, tqdm, loc, fs, pos, nfiles) :
                    fs \in {"moved", "same", "error"}} :
         /\ loc' = r.l
         /\ pc' = r.pc
         /\ REPORT_DATA' = IF r.rep THEN Append(REPORT_DATA, pos) ELSE REPORT_DATA
    /\ UNCHANGED <<rating_vars, other_vars, tqdm, args, nfiles, pos, et_wrapper>>

\* What a step has done when a KeyboardInterrupt cuts it short: the locals,
\* the wrapper and whether a report entry was appended.  Neither execute's
\* nor start's nor stop's 'except Exception' catches the interrupt.
\*  - Nothing yet.
\*  - Step 1 was reading the tags: execute is through, its error clause
\*    having stopped the wrapper or not.
\*  - write_tags was entered: start(), called by execute (171) for a
\*    wrapper that was not running, has assigned self.process and not yet
\*    set running (146-153); or the wrapper runs and the child rewrote the
\*    file or not, no answer read; or write_tags is through.
\*  - organize_file was entered and moved the file or not, no report entry
\*    appended; or steps 4 and 5 are through, the entry appended (576-582),
\*    and the interrupt comes before the try block is left.
interrupted_in(at, a, t, l, w, p, n) ==
    {[l |-> l, w |-> w, rep |-> FALSE]} \cup
    (IF at = "read" /\ (~a.no_tag \/ a.organize) /\ w.running
     THEN {[l |-> l, w |-> ExifToolWrapper_stop(w), rep |-> FALSE]}
     ELSE {}) \cup
    (IF at = "write" /\ calls_write(a, l)
     THEN (IF ~w.running
           THEN {[l |-> [l EXCEPT !.wrote = TRUE],
                  w |-> [process |-> "Popen", running |-> FALSE], rep |-> FALSE]}
           ELSE {}) \cup
          {[l |-> [l EXCEPT !.wrote = TRUE, !.stored = s],
            w |-> ExifToolWrapper_start(w, TRUE), rep |-> FALSE] : s \in BOOLEAN} \cup
          {[l |-> [l EXCEPT !.wrote = r.called, !.write_ok = r.ok,
                            !.stored = r.stored],
            w |-> r.w, rep |-> FALSE] : r \in WriteResults[w, l.detected_tags]}
     ELSE {}) \cup
    (IF at = "organize" /\ a.organize /\ l.rating # None
     THEN {[l |-> [l EXCEPT !.organized = l.rating, !.moved = m], w |-> w,
            rep |-> FALSE] : m \in BOOLEAN}
     ELSE {}) \cup
    (IF at = "organize"
     THEN {[l |-> r.l, w |-> w, rep |-> TRUE] :
              r \in {o \in {organize_and_report(a, t, l, fs, p, n) :
                                fs \in {"moved", "same", "error"}} : o.rep}}
     ELSE {})

\* KeyboardInterrupt inside the try of the loop body: the handler at
\* 587-590 is entered.  It reads none of the locals; what remains of the
\* iteration is what it did to the file.
Interrupt ==
    /\ pc \in {"read", "infer", "write", "organize"}
    /\ \E e \in {[l |-> left(m.l, "KeyboardInterrupt"), w |-> m.w, rep |-> m.rep] :
                    m \in interrupted_in(pc, args, tqdm, loc, et_wrapper, pos, nfiles)} :
         /\ loc' = e.l
         /\ et_wrapper' = e.w
         /\ REPORT_DATA' = IF e.rep THEN Append(REPORT_DATA, pos)
                           ELSE REPORT_DATA
    /\ pc' = "handler"
    /\ UNCHANGED <<rating_vars, other_vars, tqdm, args, nfiles, pos>>

\* How the handler ends: it stops the wrapper and exits ("exit"), or a
\* second interrupt cuts it short, before stop() has set running = False
\* ("before_stop") or after stop() has returned ("after_stop"); the second
\* interrupt leaves process_images.
HandlerEnds == {"exit", "before_stop", "after_stop"}

handler_end(a, w, h) ==
    [w |-> IF h = "before_stop" THEN w ELSE StopIfTagging(a, w),
     pc |-> IF h = "exit" THEN "exit" ELSE "raised"]

Handler ==
    /\ pc = "handler"
    /\ \E r \in {handler_end(args, et_wrapper, h) : h \in HandlerEnds} :
         /\ et_wrapper' = r.w
         /\ pc' = r.pc
    /\ UNCHANGED <<rating_vars, other_vars, tqdm, args, nfiles, pos, loc, REPORT_DATA>>

\* The wrapper when a KeyboardInterrupt comes outside the try: as it is;
\* before the loop also started (429-430) or, on the empty-list path,
\* started and stopped again (459, the interrupt coming before the return
\* at 460); after the loop also stopped (594-595).
interrupted_outside(at, a, w) ==
    {w} \cup
    (IF at = "start" /\ ~a.no_tag
     THEN {ExifToolWrapper_start(w, TRUE),
           ExifToolWrapper_stop(ExifToolWrapper_start(w, TRUE))}
     ELSE {}) \cup
    (IF at = "after_loop" THEN {StopIfTagging(a, w)} ELSE {})

\* KeyboardInterrupt outside the try: before the loop, at the for
\* statement, or after the loop.  It leaves process_images.
InterruptOutside ==
    /\ pc \in {"start", "head", "after_loop"}
    /\ \E w \in interrupted_outside(pc, args, et_wrapper) : et_wrapper' = w
    /\ loc' = left(loc, "KeyboardInterrupt")
    /\ pc' = "raised"
    /\ UNCHANGED <<rating_vars, other_vars, tqdm, args, nfiles, pos, REPORT_DATA>>

\* After the loop (594-614): the wrapper is stopped; with reports on and an
\* entry in REPORT_DATA the log is written and make_report is called,
\* outside every try block, so that an exception there (report_ok false:
\* the log cannot be opened, make_report raises) leaves process_images.
after_loop(a, w, l, report_data, report_ok) ==
    IF ~a.no_report /\ report_data # <<>> /\ ~report_ok
    THEN [w |-> StopIfTagging(a, w), l |-> left(l, "Exception"), pc |-> "raised"]
    ELSE [w |-> StopIfTagging(a, w), l |-> left(l, l.exc), pc |-> "done"]

AfterLoop ==
    /\ pc = "after_loop"
    /\ \E r \in {after_loop(args, et_wrapper, loc, REPORT_DATA, report_ok) :
                    report_ok \in BOOLEAN} :
         /\ et_wrapper' = r.w
         /\ loc' = r.l
         /\ pc' = r.pc
    /\ UNCHANGED <<rating_vars, other_vars, tqdm, args, nfiles, pos, REPORT_DATA>>

Next ==
    \/ Start
    \/ LoopNext
    \/ ReadTags
    \/ SkipInference
    \/ Infer
    \/ InferFails
    \/ WriteTags
    \/ SkipWrite
    \/ Organize
    \/ Interrupt
    \/ Handler
    \/ InterruptOutside
    \/ AfterLoop

Spec == Init /\ [][Next]_vars

\* ------------------------------------------------ claims: calculate_rating
\* The arguments and results the claims speak about.
P(i) == cr_args.probs[i + 1]
PreSplit == tags_global[cr_ret.rating_idx + 1]
LegacyMode == cr_args.rating_thresh # None
NsfwSum == P(1) + P(2) + P(3)
SensitiveVariants == {"sensitive", "sensitive_mild", "sensitive_high"}

\* k (0-based) holds a largest value among positions lo..3 of probs, and no
\* earlier position of lo..3 holds a value as large.
FirstLargest(k, lo) ==
    /\ k \in lo..3
    /\ \A j \in lo..3 : P(j) <= P(k)
    /\ \A j \in lo..(k - 1) : P(j) < P(k)

\* C1: whenever probs[0] >= general_threshold, calculate_rating returns
\* 'general', in every mode and for every value of the three NSFW
\* probabilities.
C1_GeneralOverride ==
    (cr_ret.done /\ P(0) >= cr_args.gen_thresh) => cr_ret.rating = "general"

C1_Witness ==
    /\ cr_ret.done
    /\ P(0) >= cr_args.gen_thresh
    /\ P(0) < MaxP
    /\ P(1) = MaxP /\ P(2) = MaxP /\ P(3) = MaxP
    /\ cr_ret.rating = "general"

\* C2: in legacy mode with probs[0] < general_threshold, the rating before
\* the split is the NSFW class of largest probability (lowest index on a
\* tie) when the NSFW sum exceeds rating_thresh, and 'general' otherwise.
C2_LegacyMode ==
    (cr_ret.done /\ LegacyMode /\ P(0) < cr_args.gen_thresh) =>
        IF NsfwSum > cr_args.rating_thresh[1]
        THEN \E k \in 1..3 : PreSplit = RATING_TAGS[k + 1] /\ FirstLargest(k, 1)
        ELSE PreSplit = "general"

\* A tie between sensitive and questionable above the threshold, won by
\* sensitive although general holds the largest value of the four.
C2_Witness ==
    /\ cr_ret.done /\ LegacyMode /\ P(0) < cr_args.gen_thresh
    /\ NsfwSum > cr_args.rating_thresh[1]
    /\ P(1) = P(2) /\ P(3) < P(1) /\ P(0) > P(1)
    /\ PreSplit = "sensitive"

\* A sum exactly at the threshold gives general.
C2_WitnessBoundary ==
    /\ cr_ret.done /\ LegacyMode /\ P(0) < cr_args.gen_thresh
    /\ NsfwSum = cr_args.rating_thresh[1] /\ NsfwSum > 0
    /\ PreSplit = "general"

\* C3: in default mode with probs[0] < general_threshold, the rating before
\* the split is the class of largest probability among all four, the lowest
\* index winning every tie.
C3_DefaultMode ==
    (cr_ret.done /\ ~LegacyMode /\ P(0) < cr_args.gen_thresh) =>
        \E k \in 0..3 : PreSplit = RATING_TAGS[k + 1] /\ FirstLargest(k, 0)

\* A tie between questionable and explicit, won by questionable.
C3_Witness ==
    /\ cr_ret.done /\ ~LegacyMode /\ P(0) < cr_args.gen_thresh
    /\ P(2) = P(3) /\ P(1) < P(2) /\ P(0) < P(2)
    /\ PreSplit = "questionable"

\* C4: a rating of 'sensitive' from rules 1-3, with ignore_sensitive false,
\* is returned as 'sensitive_mild' when probs[1] < split_threshold and as
\* 'sensitive_high' otherwise, the boundary included.
C4_SensitiveSplit ==
    (cr_ret.done /\ PreSplit = "sensitive" /\ ~cr_args.ignore_sensitive) =>
        cr_ret.rating = (IF P(1) < cr_args.split_thresh THEN "sensitive_mild"
                         ELSE "sensitive_high")

\* The boundary case probs[1] = split_threshold.
C4_Witness ==
    /\ cr_ret.done /\ PreSplit = "sensitive" /\ ~cr_args.ignore_sensitive
    /\ P(1) = cr_args.split_thresh
    /\ cr_ret.rating = "sensitive_high"

\* C5: with ignore_sensitive set no sensitive variant is returned: what
\* would be sensitive_mild or sensitive_high is 'general', and questionable
\* and explicit are returned unchanged.
C5_IgnoreSensitive ==
    (cr_ret.done /\ cr_args.ignore_sensitive) =>
        /\ cr_ret.rating \notin SensitiveVariants
        /\ PreSplit = "sensitive" => cr_ret.rating = "general"
        /\ PreSplit \in {"questionable", "explicit"} => cr_ret.rating = PreSplit

C5_Witness ==
    /\ cr_ret.done /\ cr_args.ignore_sensitive
    /\ PreSplit = "sensitive"
    /\ P(0) < P(1)
    /\ cr_ret.rating = "general"

\* C6: for every probability vector and every configuration a call of
\* calculate_rating returns, and what it returns is one of the five ratings
\* general, sensitive_mild, sensitive_high, questionable, explicit: never
\* the unsplit 'sensitive', and never a failure.
C6_RatingRange ==
    cr_ret # NotCalled =>
        /\ cr_ret.exc = "none"
        /\ cr_ret.done
        /\ cr_ret.rating \in DOMAIN folder_names

\* The part of C6 that holds of the code: a call that returns returns one
\* of the five ratings.
C6_ReturnedInRange ==
    cr_ret.done => cr_ret.rating \in DOMAIN folder_names

\* A call that returned with the split applied.
C6_Witness ==
    /\ cr_ret.done
    /\ PreSplit = "sensitive"
    /\ cr_ret.rating = "sensitive_mild"

\* A call that raised: it was given a file name, and tqdm has no write.
C6_Raised ==
    /\ cr_ret.exc = "AttributeError"
    /\ cr_args.fname_disp # <<>>
    /\ ~tqdm_write(tqdm)

\* -------------------------------------------------- claims: process_images
\* The state right after the gate of an iteration has decided.
Gated == pc = "infer"
\* Positions of the rating tags among the tags stored in the file.
RatingPositions(tags) == {i \in 1..Len(tags) : IsRatingTag(Spelling[tags[i]])}
FirstRatingTag(tags) ==
    tags[CHOOSE i \in RatingPositions(tags) :
            \A j \in RatingPositions(tags) : i <= j]

\* C7: the gate asks for an inference and carries no rating whenever force
\* is set, or the existing tag list is empty, or existing tags are present
\* and rating_thresh is set; organize plays no part.
C7_GateMustInfer ==
    (Gated /\ (\/ args.force
               \/ loc.existing_tags = <<>>
               \/ (loc.existing_tags # <<>> /\ args.rating_thresh # None))) =>
        (loc.need_inference /\ loc.rating = None)

\* Legacy mode with organize set and a stored rating tag: still inferred.
C7_Witness ==
    /\ Gated /\ ~args.force /\ args.organize /\ args.rating_thresh # None
    /\ loc.existing_tags # <<>>
    /\ found_ratings(loc.existing_tags) # <<>>
    /\ loc.need_inference /\ loc.rating = None

\* C8: with force false, rating_thresh unset, organize set and existing
\* tags present, a stored rating tag is trusted: no inference, and the
\* carried rating is the first rating tag in the stored order of the tags
\* ('sensitive' as is); with no rating tag stored the gate asks for an
\* inference and carries nothing.
C8_GateTrustsStoredRating ==
    (Gated /\ ~args.force /\ args.rating_thresh = None /\ args.organize
        /\ loc.existing_tags # <<>>) =>
        IF RatingPositions(loc.held) # {}
        THEN ~loc.need_inference /\ loc.rating = Some(FirstRatingTag(loc.held))
        ELSE loc.need_inference /\ loc.rating = None

\* Two rating tags stored, the second being 'sensitive': the first is carried.
C8_Witness ==
    /\ Gated /\ ~args.force /\ args.rating_thresh = None /\ args.organize
    /\ loc.held = <<"questionable", "sensitive">>
    /\ loc.existing_tags = TextsOf(loc.held)
    /\ ~loc.need_inference /\ loc.rating = Some("questionable")

\* A stored 'sensitive' is carried unsplit.
C8_WitnessSensitive ==
    /\ Gated /\ ~args.force /\ args.rating_thresh = None /\ args.organize
    /\ loc.held = <<"1girl", "sensitive">>
    /\ ~loc.need_inference /\ loc.rating = Some("sensitive")

\* C9: an image whose existing tags are present, with force false,
\* rating_thresh unset and organize false, is skipped: no inference, no
\* rating, no write_tags call, no move and no report entry.
C9_SkipTaggedImage ==
    (loc.existing_tags # <<>> /\ ~args.force /\ args.rating_thresh = None
        /\ ~args.organize) =>
        /\ ~loc.need_inference
        /\ ~loc.inferred
        /\ loc.rating = None
        /\ ~loc.wrote /\ ~loc.stored
        /\ loc.organized = None /\ ~loc.moved
        /\ ~loc.reported
        /\ \A k \in 1..Len(REPORT_DATA) : REPORT_DATA[k] # pos

\* The iteration of such an image has run to its end, with reports on.
C9_Witness ==
    /\ pc = "head" /\ loc.exc = "none"
    /\ loc.existing_tags # <<>> /\ ~args.force /\ args.rating_thresh = None
    /\ ~args.organize /\ ~args.no_report
    /\ ~loc.inferred /\ ~loc.wrote /\ ~loc.reported

\* C10: without --force an image whose metadata holds tags never has them
\* overwritten: write_tags rewrites a file's tags only if force is set or
\* the file held no tags.
C10_NoOverwriteWithoutForce ==
    (loc.wrote /\ loc.stored) => (args.force \/ loc.held = <<>>)

\* C11: a failure while handling one image that is not a user interrupt is
\* logged and skips only that image: the loop ends only when every file of
\* the list has been taken.
C11_FailureSkipsOneImage ==
    (pc \in {"after_loop", "done"} /\ loc.exc # "KeyboardInterrupt") =>
        pos = nfiles

\* C12: write_tags answers True only when the tool's output reports that an
\* image file was updated, that is, only when the tags were stored; with a
\* wrapper that is not running after the call it answers False.
C12_WriteTrueOnlyWhenUpdated ==
    /\ loc.write_ok => loc.stored
    /\ (loc.wrote /\ ~et_wrapper.running) => ~loc.write_ok

\* C13: with ignore_sensitive set, the rating handed to organize_file is
\* never one of the sensitive ratings, whether it was computed by
\* calculate_rating or carried over from the tags already in the file.
C13_IgnoreSensitiveOrganize ==
    (args.ignore_sensitive /\ loc.organized # None) =>
        loc.organized[1] \notin SensitiveVariants

\* C15: the rating handed to organize_file is always one of the five keys
\* of folder_names.
C15_OrganizeRatingIsFolderKey ==
    loc.organized # None => loc.organized[1] \in DOMAIN folder_names

\* C16: a wrapper that was started is stopped on every way out of
\* process_images (empty file list, normal end, break on a connection
\* error, keyboard interrupt, error raised before the loop), and a running
\* wrapper always holds a process handle.
C16_WrapperStoppedOnExit ==
    /\ pc \in {"done", "exit", "raised"} => ~et_wrapper.running
    /\ et_wrapper.running => et_wrapper.process # "None"

\* C14: calculate_rating depends only on the first four entries of probs and
\* on the configuration: calls that agree on these return the same rating,
\* whatever follows the four entries and however many calls came before.
C14_OnlyFirstFour == Cardinality(cr_calls.ratings) <= 1

C14_Witness ==
    /\ cr_calls.n >= 2
    /\ <<>> \in cr_calls.tails
    /\ <<MaxP>> \in cr_calls.tails
    /\ P(0) < cr_args.gen_thresh
    /\ \A i \in 0..3 : P(i) < MaxP

\* C17: write_xmp_passthrough_safe leaves the image at its original path,
\* with no temporary file, on every outcome in which the restoring rename
\* does not fail (exiftool succeeded, exited non-zero, could not be run, or
\* the first rename failed), whether the function returns or is left by an
\* exception; with an empty tag list it renames nothing and runs no command.
C17_ImageRestored ==
    xmp.pc \in {"returned", "raised"} =>
        /\ ~xmp.restore_failed => (xmp.at_orig /\ ~xmp.at_temp)
        /\ xmp.tags_list = <<>> => (xmp.renames = 0 /\ ~xmp.ran)

C17_Witness ==
    /\ xmp.pc = "returned"
    /\ xmp.ran
    /\ xmp.exc = "OSError"
    /\ xmp.renames = 2
    /\ xmp.at_orig

\* Every key of s is in t, and where both hold a dict under one key, every
\* key of the inner dict of s is in that of t.
HasEveryKey(t, s) ==
    \A i \in s :
        /\ has_key(t, i.k)
        /\ (~i.scalar /\ ~dict_get(t, i.k).scalar) =>
               \A j \in i.sub : has_key(dict_get(t, i.k).sub, j.k)

\* No key twice, at either depth.
OneItemPerKey(d) ==
    /\ \A i, j \in d : i.k = j.k => i = j
    /\ \A i \in d : \A x, y \in i.sub : x.k = y.k => x = y

\* Every item of old is in new with its kind and value, a dict with at
\* least the items it had.
KeepsValues(old, new) ==
    \A i \in old :
        /\ has_key(new, i.k)
        /\ dict_get(new, i.k).scalar = i.scalar
        /\ dict_get(new, i.k).val = i.val
        /\ i.sub \subseteq dict_get(new, i.k).sub

\* The keys of d at both depths.
AllKeys(d) == {<<i.k>> : i \in d} \cup UNION {{<<i.k, j.k>> : j \in i.sub} : i \in d}

\* C18: merge_defaults adds every key of source missing in target, entering
\* dicts present on both sides, changes and removes no existing value, and
\* returns True exactly when it added a key at some depth; a second call
\* returns False and changes nothing.
C18_MergeDefaults ==
    /\ Len(md.ret) >= 1 =>
         /\ HasEveryKey(md.first, md.source)
         /\ \A i \in md.source : ~has_key(md.original, i.k) => i \in md.first
         /\ OneItemPerKey(md.first)
         /\ KeepsValues(md.original, md.first)
         /\ md.ret[1] <=> (AllKeys(md.first) # AllKeys(md.original))
    /\ Len(md.ret) = 2 => (~md.ret[2] /\ md.target = md.first)

C18_Witness ==
    /\ Len(md.ret) = 2
    /\ md.ret[1]
    /\ \A i \in md.source : has_key(md.original, i.k)
    /\ md.first # md.original

=============================================================================
